---- MODULE Spec2Model ----
(***************************************************************************)
(* Supervisor workflow of backend/app/graphs/supervisor_graph.py: the      *)
(* routing decision (agents/supervisor.py), the graph of supervisor and    *)
(* worker nodes, the workflow state (graphs/state.py) with its message     *)
(* reducer, the checkpointer handle and execute_agent_workflow.            *)
(*                                                                         *)
(* The graph engine (StateGraph / ainvoke / AsyncPostgresSaver) is the     *)
(* langgraph library.  Its behaviour at the call sites of the repository   *)
(* is modelled as documented: the input of ainvoke is written to the       *)
(* channels of the thread loaded from the checkpointer (plain fields are   *)
(* overwritten, messages go through add_messages), a checkpoint is saved   *)
(* after the input and after every node, and the values of the channels    *)
(* after the last node are returned.                                       *)
(***************************************************************************)
EXTENDS Integers, Sequences, FiniteSets, TLC

(* ------------------------------ bounds -------------------------------- *)
\* number of execute_agent_workflow calls in one behaviour
MaxCalls == 2
\* number of calls in one behaviour of LiveSpec
MaxLiveCalls == 1
\* number of text frames the websocket clients send in one behaviour
MaxFrames == 2

(* ----------------------------- constants ------------------------------ *)
None == "<None>"
END == "__end__"
\* router: "Safety: max 3 iterations total"
SafetyBound == 3
\* create_initial_state: max_iterations=10
DefaultMaxIterations == 10

\* supervisor.py WORKER_AGENTS
WORKER_AGENTS ==
    {"data_ingestion_agent", "analysis_agent", "query_agent",
     "report_agent", "notification_agent"}
\* router: valid_agents, the nodes create_supervisor_workflow registers
valid_agents == {"data_ingestion_agent", "analysis_agent", "query_agent"}

\* callers of execute_agent_workflow (request handlers); the calls of a
\* behaviour run one after the other, made by the first caller
Calls == {1, 2}
\* conversation ids a caller supplies; None asks for a generated one
ConvIds == {"c1"}
UserIds == {"alice"}
\* the websockets of a behaviour, in the order their clients connect
Sockets == {1, 2}
\* the client_id path parameters the clients choose
ClientIds == {"web", "cli"}
\* the messages the n-th call may carry: every call sends a new message
UserMessages(n) == {"u" \o ToString(n)}

\* text an LLM call of a worker (BaseAgent.execute) returns
WorkerOutputs == {"out", ""}
\* text the LLM call of the supervisor's fallback (BaseAgent.execute) returns
FallbackOutputs == {"out", "", " "}
\* str(e) of exceptions
LlmErrors == {"llm down"}
DbErrors == {"connection closed", "boom"}
\* str(e) of the exceptions __aenter__ and setup raise
SetupErrors ==
    {"connection closed", "Connection Timeout", "429 connection timeout",
     "Rate_Limit: Too Many Requests"}

(* ------------------------------ strings ------------------------------- *)
\* str.strip() == "" on the contents the model uses
IsBlank(s) == s \in {"", " ", "  "}
\* Python truthiness of an Optional[str]
Truthy(s) == s # None /\ s # ""

\* the needles execute_agent_workflow looks for that occur in text.lower()
Needles(text) ==
    CASE text = "connection closed" -> {"connection"}
      [] text = "Connection Timeout" -> {"connection", "timeout"}
      [] text = "429 connection timeout" -> {"429", "connection", "timeout"}
      [] text = "Rate_Limit: Too Many Requests" ->
             {"rate_limit", "too many requests"}
      [] OTHER -> {}
\* needle in error_msg.lower()
LowerContains(text, needle) == needle \in Needles(text)
\* needle in error_msg (case-sensitive; asked of "429", which has no case)
Contains(text, needle) == needle \in Needles(text)

(* --------------------------- workflow state --------------------------- *)
HumanMessage(content) ==
    [id |-> None, type |-> "human", name |-> None, content |-> content]
AIMessage(content, name) ==
    [id |-> None, type |-> "ai", name |-> name, content |-> content]

InitialMetadata == [started_at |-> None, status |-> "initiated"]
EmptyDict == [status |-> "{}"]

\* mutant: the state does not carry the identifiers it is given
create_initial_state_anonymous(user_message, conversation_id, user_id) ==
    [messages |-> <<HumanMessage(user_message)>>,
     next_agent |-> "supervisor",
     current_agent |-> None,
     conversation_id |-> None,
     user_id |-> None,
     metadata |-> InitialMetadata,
     execution_count |-> 0,
     max_iterations |-> DefaultMaxIterations]

\* mutant: the values of execution_count and max_iterations are exchanged
create_initial_state_swapped(user_message, conversation_id, user_id) ==
    [messages |-> <<HumanMessage(user_message)>>,
     next_agent |-> "supervisor",
     current_agent |-> None,
     conversation_id |-> conversation_id,
     user_id |-> user_id,
     metadata |-> InitialMetadata,
     execution_count |-> DefaultMaxIterations,
     max_iterations |-> 0]

create_initial_state(user_message, conversation_id, user_id) ==
    [messages |-> <<HumanMessage(user_message)>>,
     next_agent |-> "supervisor",
     current_agent |-> None,
     conversation_id |-> conversation_id,
     user_id |-> user_id,
     metadata |-> InitialMetadata,
     execution_count |-> 0,
     max_iterations |-> DefaultMaxIterations]

\* mutant: every identifier drawn is the same
Uuid_constant(n) == "uuid-0"

\* str(uuid.uuid4()): the n-th identifier drawn in a behaviour
Uuid(n) == "uuid-" \o ToString(n)

\* number of messages of a list that still have no id
Unassigned(msgs) == Cardinality({i \in DOMAIN msgs : msgs[i].id = None})

\* add_messages, "assign missing ids": the k-th id-less message gets Uuid(n+k)
AssignIds(msgs, n) ==
    [i \in DOMAIN msgs |->
        IF msgs[i].id = None
        THEN [msgs[i] EXCEPT !.id =
                 Uuid(n + Cardinality({j \in 1..i : msgs[j].id = None}))]
        ELSE msgs[i]]

IndexOfId(msgs, id) ==
    IF \E i \in DOMAIN msgs : msgs[i].id = id
    THEN CHOOSE i \in DOMAIN msgs : msgs[i].id = id
    ELSE 0

RECURSIVE MergeById(_, _)
\* add_messages, "merge": a message of right whose id left holds replaces it
\* in place, any other is appended
MergeById(merged, right) ==
    IF right = <<>> THEN merged
    ELSE LET m == Head(right)
             k == IndexOfId(merged, m.id)
         IN MergeById(IF k > 0 THEN [merged EXCEPT ![k] = m]
                               ELSE Append(merged, m),
                      Tail(right))

\* mutant: messages has no reducer, an update replaces the list
replace_messages(left, right, n) == AssignIds(right, n)

\* the reducer of AgentState.messages; n is the number of uuids drawn so far
add_messages(left, right, n) ==
    LET l == AssignIds(left, n)
        r == AssignIds(right, n + Unassigned(left))
    IN MergeById(l, r)

(* ------------------------- LLM calls and agents ----------------------- *)
\* outcome of one llm.ainvoke: it raises str(e) = error, or returns content
LlmRaises(error) == [raised |-> TRUE, error |-> error]
LlmReturns(content) == [raised |-> FALSE, content |-> content]

\* BaseAgent.execute: never raises, a failure of the LLM call is returned
execute(llm) ==
    IF llm.raised
    THEN [success |-> FALSE, output |-> None, error |-> llm.error]
    ELSE [success |-> TRUE, output |-> llm.content, error |-> None]

\* outcomes of the LLM call a worker's execute makes
WorkerLlm ==
    {LlmReturns(o) : o \in WorkerOutputs} \cup {LlmRaises(e) : e \in LlmErrors}
\* outcomes of the LLM call the execute of the supervisor's fallback makes
FallbackLlm ==
    {LlmReturns(o) : o \in FallbackOutputs} \cup {LlmRaises(e) : e \in LlmErrors}

(* A response of the routing LLM call, by what make_routing_decision reads *)
(* of it: flag  "can_answer_directly: true" occurs in content.lower(),     *)
(* phrase / yes  "answer directly" / "yes" occur in it, line  the text     *)
(* after the first ':' of the first line holding 'direct_answer' or        *)
(* 'answer:' (None: no such line), kws  the routing keywords that occur.   *)
Keywords ==
    {"data_ingestion", "file", "query", "database", "analysis", "report", "notif"}
AnswerLines == {None, "", "4"}
\* the keyword sets of the responses the model draws: none, each keyword
\* alone, pairs whose keywords name different workers, and all of them
\* together
KeywordSets ==
    {{}} \cup {{k} : k \in Keywords}
         \cup {{"report", "file"}, {"notif", "analysis"}, {"database", "report"},
               {"file", "query"}, {"database", "analysis"}, {"report", "notif"},
               Keywords}
\* responses that pass the direct-answer test, and responses that do not
RoutingContents ==
    {r \in [flag : BOOLEAN, phrase : BOOLEAN, yes : BOOLEAN,
            line : AnswerLines, kws : {{}, {"analysis"}}] :
        r.flag \/ (r.phrase /\ r.yes)}
    \cup
    {r \in [flag : {FALSE}, phrase : BOOLEAN, yes : BOOLEAN,
            line : {None, "4"}, kws : KeywordSets] :
        ~(r.phrase /\ r.yes)}
\* the whole text of a routing response (content)
ContentText == "resp"

RoutingDecision(can_answer_directly, direct_answer, delegate_to, reasoning) ==
    [can_answer_directly |-> can_answer_directly,
     direct_answer |-> direct_answer,
     delegate_to |-> delegate_to,
     reasoning |-> reasoning]

\* mutant: the test for the query keywords comes first
DelegateFor_query_first(kws) ==
    IF "query" \in kws \/ "database" \in kws THEN "query_agent"
    ELSE IF "data_ingestion" \in kws \/ "file" \in kws THEN "data_ingestion_agent"
    ELSE IF "analysis" \in kws THEN "analysis_agent"
    ELSE IF "report" \in kws THEN "report_agent"
    ELSE IF "notif" \in kws THEN "notification_agent"
    ELSE "analysis_agent"

\* make_routing_decision, "Determine delegation": first keyword test that holds
DelegateFor(kws) ==
    IF "data_ingestion" \in kws \/ "file" \in kws THEN "data_ingestion_agent"
    ELSE IF "query" \in kws \/ "database" \in kws THEN "query_agent"
    ELSE IF "analysis" \in kws THEN "analysis_agent"
    ELSE IF "report" \in kws THEN "report_agent"
    ELSE IF "notif" \in kws THEN "notification_agent"
    ELSE "analysis_agent"

\* make_routing_decision, the try block: parse the response of the LLM
ParseDecision(content) ==
    LET can_answer == content.flag \/ (content.phrase /\ content.yes)
        found == IF can_answer THEN content.line ELSE None
        direct_answer ==
            IF ~can_answer THEN None
            ELSE IF Truthy(found) THEN found ELSE ContentText
        delegate_to == IF can_answer THEN None ELSE DelegateFor(content.kws)
    IN RoutingDecision(can_answer, direct_answer,
                       IF Truthy(delegate_to) THEN delegate_to ELSE "FINISH",
                       ContentText)

\* make_routing_decision, the except block: simple_response is <<r>> for the
\* r self.execute returned, <<>> stands for execute itself raising
FallbackDecision(simple_response) ==
    IF simple_response = <<>>
    THEN RoutingDecision(FALSE, None, "analysis_agent", "Fallback to analysis agent")
    ELSE RoutingDecision(TRUE, simple_response[1].output, "FINISH",
                         "Fallback to direct answer")

(* ------------------------------- nodes -------------------------------- *)
\* mutant: the node does not test current_agent
supervisor_node_untested(state, outcome) ==
    LET execution_count == state.execution_count
    IN IF outcome = <<>>
       THEN [state EXCEPT !.next_agent = "analysis_agent",
                          !.execution_count = execution_count + 1]
       ELSE LET decision == outcome[1]
            IN IF decision.can_answer_directly /\ Truthy(decision.direct_answer)
               THEN [state EXCEPT
                        !.messages = Append(@, AIMessage(decision.direct_answer,
                                                         "supervisor")),
                        !.next_agent = END,
                        !.current_agent = "supervisor"]
               ELSE [state EXCEPT
                        !.next_agent = decision.delegate_to,
                        !.current_agent = "supervisor",
                        !.execution_count = execution_count + 1]

\* supervisor_node: the state it returns.  outcome is <<decision>>, or <<>>
\* when make_routing_decision raised
supervisor_node(state, outcome) ==
    LET execution_count == state.execution_count
        current_agent == state.current_agent
    IN IF Truthy(current_agent) /\ current_agent # "supervisor"
       THEN [state EXCEPT !.next_agent = END]
       ELSE IF outcome = <<>>
       THEN [state EXCEPT !.next_agent = "analysis_agent",
                          !.execution_count = execution_count + 1]
       ELSE LET decision == outcome[1]
            IN IF decision.can_answer_directly /\ Truthy(decision.direct_answer)
               THEN [state EXCEPT
                        !.messages = Append(@, AIMessage(decision.direct_answer,
                                                         "supervisor")),
                        !.next_agent = END,
                        !.current_agent = "supervisor"]
               ELSE [state EXCEPT
                        !.next_agent = decision.delegate_to,
                        !.current_agent = "supervisor",
                        !.execution_count = execution_count + 1]

\* mutant: the node appends result["output"] whether execute succeeded or not
worker_node_unguarded(name, state, result) ==
    [state EXCEPT !.messages = Append(@, AIMessage(result.output, name)),
                  !.current_agent = name,
                  !.next_agent = END]

\* mutant: a worker counts its execution
worker_node_counting(name, state, result) ==
    LET content == IF result.success THEN result.output
                   ELSE "Error: " \o result.error
    IN [state EXCEPT !.messages = Append(@, AIMessage(content, name)),
                     !.current_agent = name,
                     !.next_agent = END,
                     !.execution_count = @ + 1]

\* analysis_node / data_ingestion_node / query_node: the task of the node is
\* the content of the last message
worker_task(state) ==
    IF state.messages = <<>> THEN ""
    ELSE state.messages[Len(state.messages)].content

\* analysis_node / data_ingestion_node / query_node: the state the node of
\* worker name returns, result being what the worker's execute returned
worker_node(name, state, result) ==
    LET content == IF result.success THEN result.output
                   ELSE "Error: " \o result.error
    IN [state EXCEPT !.messages = Append(@, AIMessage(content, name)),
                     !.current_agent = name,
                     !.next_agent = END]

\* state.get(key, default)
Get(state, key, default) == IF key \in DOMAIN state THEN state[key] ELSE default

\* mutant: the router does not test next_agent against valid_agents
router_unchecked(state) ==
    LET next_agent == Get(state, "next_agent", END)
        execution_count == Get(state, "execution_count", 0)
    IN IF execution_count >= SafetyBound THEN END
       ELSE IF next_agent = END \/ next_agent = "FINISH" THEN END
       ELSE next_agent

\* router: the conditional edge out of the supervisor
router(state) ==
    LET next_agent == Get(state, "next_agent", END)
        execution_count == Get(state, "execution_count", 0)
    IN IF execution_count >= SafetyBound THEN END
       ELSE IF next_agent = END \/ next_agent = "FINISH"
               \/ next_agent \notin valid_agents
       THEN END
       ELSE next_agent

\* mutant: the edge of a worker leads back to the supervisor
WorkerEdgeToSupervisor(name) == "supervisor"
\* create_supervisor_workflow: add_edge(<worker>, END) for every worker node
WorkerEdge(name) == END

(* ------------------------ execute_agent_workflow ---------------------- *)
\* mutant: the timeout test comes before the rate-limit test
UserError_timeout_first(error_msg) ==
    IF LowerContains(error_msg, "timeout") THEN "Request Timed Out"
    ELSE IF Contains(error_msg, "429") \/ LowerContains(error_msg, "rate_limit")
            \/ LowerContains(error_msg, "too many requests")
    THEN "API Rate Limit Reached"
    ELSE IF LowerContains(error_msg, "connection") THEN "Connection Error"
    ELSE "Error Occurred: " \o error_msg

\* the user-facing text of the except block, by the first test that holds
UserError(error_msg) ==
    IF Contains(error_msg, "429") \/ LowerContains(error_msg, "rate_limit")
       \/ LowerContains(error_msg, "too many requests")
    THEN "API Rate Limit Reached"
    ELSE IF LowerContains(error_msg, "timeout") THEN "Request Timed Out"
    ELSE IF LowerContains(error_msg, "connection") THEN "Connection Error"
    ELSE "Error Occurred: " \o error_msg

\* the dictionary the except block returns
ErrorResult(conversation_id, error_msg) ==
    [success |-> FALSE,
     conversation_id |-> conversation_id,
     response |-> UserError(error_msg),
     error |-> error_msg,
     messages |-> <<>>,
     metadata |-> EmptyDict]

\* [{"role": m.type, "content": m.content} for m in messages]
RoleContent(messages) ==
    [i \in DOMAIN messages |->
        [role |-> messages[i].type, content |-> messages[i].content]]

\* mutant: the result is returned without the validation of the response
UnvalidatedResult(conversation_id, final_state) ==
    [success |-> TRUE,
     conversation_id |-> conversation_id,
     response |-> final_state.messages[Len(final_state.messages)].content,
     messages |-> RoleContent(final_state.messages),
     metadata |-> final_state.metadata]

\* "Validate response" and the three returns that follow graph.ainvoke
ValidatedResult(conversation_id, final_state) ==
    LET messages == final_state.messages
        final_message == messages[Len(messages)].content
    IN IF Len(messages) <= 1
       THEN [success |-> FALSE,
             conversation_id |-> conversation_id,
             response |-> "I couldn't generate a response.",
             messages |-> <<>>,
             metadata |-> EmptyDict]
       ELSE IF ~Truthy(final_message) \/ IsBlank(final_message)
       THEN [success |-> FALSE,
             conversation_id |-> conversation_id,
             response |-> "I encountered an issue.",
             messages |-> RoleContent(messages),
             metadata |-> EmptyDict]
       ELSE [success |-> TRUE,
             conversation_id |-> conversation_id,
             response |-> final_message,
             messages |-> RoleContent(messages),
             metadata |-> final_state.metadata]

\* mutant: every conversation runs under one thread
SharedThreadKey(conversation_id) == "c1"

\* config = {"configurable": {"thread_id": conversation_id}}
ThreadKey(conversation_id) == conversation_id

(* ------------------------- the graph engine --------------------------- *)
StateKeys ==
    {"messages", "next_agent", "current_agent", "conversation_id", "user_id",
     "metadata", "execution_count", "max_iterations"}

\* mutant: the graph runs without the checkpoint of the thread
ApplyInputFresh(loaded, input, n) ==
    [k \in StateKeys |->
        IF k = "messages" THEN add_messages(<<>>, input.messages, n)
        ELSE input[k]]

\* mutant: only the messages of the input are written, a resumed thread
\* keeps every other field of its checkpoint
ApplyInput_messages_only(loaded, input, n) ==
    [k \in StateKeys |->
        IF k = "messages"
        THEN add_messages(IF loaded = <<>> THEN <<>> ELSE loaded[1].messages,
                          input.messages, n)
        ELSE IF loaded # <<>> THEN loaded[1][k]
        ELSE input[k]]

\* the channels after the input of ainvoke is written over the checkpoint
\* loaded for the thread (loaded is <<>> for a new thread): messages are
\* reduced, every other key the input holds is overwritten
ApplyInput(loaded, input, n) ==
    [k \in StateKeys |->
        IF k = "messages"
        THEN add_messages(IF loaded = <<>> THEN <<>> ELSE loaded[1].messages,
                          input.messages, n)
        ELSE IF k \in DOMAIN input THEN input[k]
        ELSE IF loaded # <<>> THEN loaded[1][k]
        ELSE None]

\* the channels after a node returned: messages are reduced with the list
\* the node returned, every other key is overwritten
ApplyWrites(channels, returned, n) ==
    [returned EXCEPT !.messages = add_messages(channels.messages, @, n)]

\* AsyncPostgresSaver: the checkpoint of a thread after a save
Put(checkpoints, thread_id, channels) ==
    [k \in DOMAIN checkpoints \cup {thread_id} |->
        IF k = thread_id THEN channels ELSE checkpoints[k]]

(* ------------------------------- state -------------------------------- *)
VARIABLES
    pc,           \* per call: where execute_agent_workflow stands
    args,         \* per call: user_message, conversation_id, user_id
    channels,     \* per call: <<state>> of the graph being run, else <<>>
    graph_cp,     \* per call: the checkpointer get_checkpointer returned (0: none)
    opening,      \* per call: the connection its __aenter__ is opening (0: none)
    result,       \* per call: <<dictionary returned>>, <<>> while running
    trace,        \* per call: the nodes that ran in this turn, in order
    decision,     \* per call: <<routing decision of this turn>>, else <<>>
    turn_base,    \* per call: length of the transcript once the input is written
    store,        \* the checkpoint table: thread_id -> saved state
    final_state,  \* conversation_id -> <<final_state of its last turn>>, while
                  \* no later turn has run on the conversation
    last_result,  \* conversation_id -> the result its last call returned
    prev_result,  \* per call: <<last_result of its conversation when called>>,
                  \* <<>> when no call ran on it before
    uuids,        \* number of uuid4 identifiers drawn
    calls_made,   \* number of calls started
    checkpointer_cm,        \* module global _checkpointer_cm (0: None)
    checkpointer_instance,  \* module global _checkpointer_instance (0: None)
    conn_open,    \* the connections that are open
    conns,        \* number of connections constructed
    closing,      \* the context manager close_checkpointer is exiting (0: none)
    lifespan,     \* "running", or "stopped" once the shutdown sequence ended
    active_connections,  \* manager.active_connections: client_id -> websocket
    ws_pc,        \* per websocket: where its agent_updates_websocket stands
    ws_client,    \* per websocket: the client_id of its path
    ws_inbox,     \* per websocket: what the client sent and is not yet received
    ws_sent,      \* per websocket: the messages send_json delivered to it
    ws_frames     \* number of text frames the clients have sent

vars ==
    <<pc, args, channels, graph_cp, opening, result, trace, decision,
      turn_base, store, final_state, last_result, prev_result, uuids, calls_made, checkpointer_cm,
      checkpointer_instance, conn_open, conns, closing, lifespan,
      active_connections, ws_pc, ws_client, ws_inbox, ws_sent, ws_frames>>

call_vars == <<args, channels, result, trace, decision, turn_base, prev_result>>
life_vars == <<closing, lifespan>>
ws_vars ==
    <<active_connections, ws_pc, ws_client, ws_inbox, ws_sent, ws_frames>>
cp_vars ==
    <<checkpointer_cm, checkpointer_instance, conn_open, conns, life_vars,
      ws_vars>>

NoArgs == [user_message |-> None, conversation_id |-> None, user_id |-> None]

Init ==
    /\ pc = [c \in Calls |-> "idle"]
    /\ args = [c \in Calls |-> NoArgs]
    /\ channels = [c \in Calls |-> <<>>]
    /\ graph_cp = [c \in Calls |-> 0]
    /\ opening = [c \in Calls |-> 0]
    /\ result = [c \in Calls |-> <<>>]
    /\ trace = [c \in Calls |-> <<>>]
    /\ decision = [c \in Calls |-> <<>>]
    /\ turn_base = [c \in Calls |-> 0]
    /\ store = <<>>
    /\ final_state = <<>>
    /\ last_result = <<>>
    /\ prev_result = [c \in Calls |-> <<>>]
    /\ uuids = 0
    /\ calls_made = 0
    /\ checkpointer_cm = 0
    /\ checkpointer_instance = 0
    /\ conn_open = {}
    /\ conns = 0
    /\ closing = 0
    /\ lifespan = "running"
    /\ active_connections = <<>>
    /\ ws_pc = [s \in Sockets |-> "none"]
    /\ ws_client = [s \in Sockets |-> None]
    /\ ws_inbox = [s \in Sockets |-> <<>>]
    /\ ws_sent = [s \in Sockets |-> <<>>]
    /\ ws_frames = 0

Active(c) == pc[c] \notin {"idle", "done"}
\* the program points inside graph.ainvoke
GraphPcs == {"ainvoke", "supervisor", "routing_llm", "fallback_llm"} \cup valid_agents
\* the calls the model runs one after the other use the first caller
FirstCall == CHOOSE c \in Calls : \A d \in Calls : c <= d

(* ------------------------------ actions ------------------------------- *)
\* execute_agent_workflow is called: the conversation id is generated when
\* none is supplied
Enter(c, user_message, conversation_id, user_id) ==
    /\ ~Active(c)
    /\ closing = 0
    /\ lifespan = "running"
    /\ calls_made' = calls_made + 1
    /\ LET generate == ~Truthy(conversation_id)
           cid == IF generate THEN Uuid(uuids + 1) ELSE conversation_id
       IN /\ uuids' = IF generate THEN uuids + 1 ELSE uuids
          /\ args' = [args EXCEPT ![c] = [user_message |-> user_message,
                                          conversation_id |-> cid,
                                          user_id |-> user_id]]
          /\ prev_result' = [prev_result EXCEPT
                                ![c] = IF cid \in DOMAIN last_result
                                       THEN <<last_result[cid]>> ELSE <<>>]
    /\ pc' = [pc EXCEPT ![c] = "get_checkpointer"]
    /\ channels' = [channels EXCEPT ![c] = <<>>]
    /\ result' = [result EXCEPT ![c] = <<>>]
    /\ trace' = [trace EXCEPT ![c] = <<>>]
    /\ decision' = [decision EXCEPT ![c] = <<>>]
    /\ turn_base' = [turn_base EXCEPT ![c] = 0]
    /\ graph_cp' = [graph_cp EXCEPT ![c] = 0]
    /\ UNCHANGED <<opening, store, final_state, last_result>>
    /\ UNCHANGED cp_vars

\* the calls of a behaviour run one after the other, made by the first caller
CallWithin(c, user_message, conversation_id, user_id, max_calls) ==
    /\ c = FirstCall
    /\ \A d \in Calls : ~Active(d)
    /\ calls_made < max_calls
    /\ Enter(c, user_message, conversation_id, user_id)

Call(c, user_message, conversation_id, user_id) ==
    CallWithin(c, user_message, conversation_id, user_id, MaxCalls)

\* mutant: no except block, the exception leaves execute_agent_workflow
FailPropagates(c, error_msg) ==
    /\ pc' = [pc EXCEPT ![c] = "raised"]
    /\ UNCHANGED <<result, last_result>>

\* the except block of execute_agent_workflow
Fail(c, error_msg) ==
    /\ result' = [result EXCEPT
                    ![c] = <<ErrorResult(args[c].conversation_id, error_msg)>>]
    /\ last_result' = Put(last_result, args[c].conversation_id,
                          ErrorResult(args[c].conversation_id, error_msg))
    /\ pc' = [pc EXCEPT ![c] = "done"]

\* mutant: get_checkpointer constructs a handle on every call
GetCheckpointer_always_new(c) ==
    /\ pc[c] = "get_checkpointer"
    /\ conns' = conns + 1
    /\ checkpointer_cm' = conns + 1
    /\ opening' = [opening EXCEPT ![c] = conns + 1]
    /\ pc' = [pc EXCEPT ![c] = "aenter"]
    /\ UNCHANGED <<graph_cp, store, final_state, last_result, uuids, calls_made,
                   checkpointer_instance, conn_open>>
    /\ UNCHANGED life_vars
    /\ UNCHANGED ws_vars
    /\ UNCHANGED call_vars

\* get_checkpointer up to its first await: reuse the live instance, or
\* construct a context manager and start entering it
GetCheckpointer(c) ==
    /\ pc[c] = "get_checkpointer"
    /\ IF checkpointer_instance # 0 /\ checkpointer_instance \in conn_open
       THEN /\ graph_cp' = [graph_cp EXCEPT ![c] = checkpointer_instance]
            /\ pc' = [pc EXCEPT ![c] = "ainvoke"]
            /\ UNCHANGED <<opening, checkpointer_cm, conns>>
       ELSE /\ conns' = conns + 1
            /\ checkpointer_cm' = conns + 1
            /\ opening' = [opening EXCEPT ![c] = conns + 1]
            /\ pc' = [pc EXCEPT ![c] = "aenter"]
            /\ UNCHANGED graph_cp
    /\ UNCHANGED <<store, final_state, last_result, uuids, calls_made,
                   checkpointer_instance, conn_open>>
    /\ UNCHANGED life_vars
    /\ UNCHANGED ws_vars
    /\ UNCHANGED call_vars

\* _checkpointer_instance = await _checkpointer_cm.__aenter__() completes
AEnter(c) ==
    /\ pc[c] = "aenter"
    /\ conn_open' = conn_open \cup {opening[c]}
    /\ checkpointer_instance' = opening[c]
    /\ opening' = [opening EXCEPT ![c] = 0]
    /\ pc' = [pc EXCEPT ![c] = "setup"]
    /\ UNCHANGED <<graph_cp, store, final_state, last_result, uuids, calls_made,
                   checkpointer_cm, conns>>
    /\ UNCHANGED life_vars
    /\ UNCHANGED ws_vars
    /\ UNCHANGED call_vars

\* await _checkpointer_instance.setup() completes; return _checkpointer_instance
Setup(c) ==
    /\ pc[c] = "setup"
    /\ checkpointer_instance \in conn_open
    /\ graph_cp' = [graph_cp EXCEPT ![c] = checkpointer_instance]
    /\ pc' = [pc EXCEPT ![c] = "ainvoke"]
    /\ UNCHANGED <<opening, store, final_state, last_result, uuids, calls_made>>
    /\ UNCHANGED cp_vars
    /\ UNCHANGED call_vars

\* __aenter__ or setup raises (the database refuses or drops the connection)
GetCheckpointerRaises(c, error_msg) ==
    /\ pc[c] \in {"aenter", "setup"}
    /\ Fail(c, error_msg)
    /\ opening' = [opening EXCEPT ![c] = 0]
    /\ UNCHANGED <<args, prev_result, channels, trace, decision, turn_base, graph_cp, store,
                   final_state, uuids, calls_made>>
    /\ UNCHANGED cp_vars

\* mutant: the checkpoint loaded is the one of whichever thread has one
Load_any(thread_id) ==
    IF DOMAIN store # {}
    THEN <<store[CHOOSE k \in DOMAIN store : TRUE]>>
    ELSE <<>>

\* the checkpoint saved for a thread: <<state>>, or <<>> when there is none
Load(thread_id) ==
    IF thread_id \in DOMAIN store THEN <<store[thread_id]>> ELSE <<>>

\* the node (or END) the graph runs after the supervisor node
AfterSupervisor(state) == router(state)

\* the program point reached when the graph moves on to node (or END)
PcOf(node) == IF node = END THEN "return" ELSE node

\* mutant: a turn waits while another turn of its conversation is running
InvokeStart_locked(c) ==
    /\ pc[c] = "ainvoke"
    /\ graph_cp[c] \in conn_open
    /\ \A d \in Calls \ {c} :
          ~(/\ pc[d] \in {"supervisor", "routing_llm", "fallback_llm"}
                         \cup valid_agents
            /\ args[d].conversation_id = args[c].conversation_id)
    /\ LET key == ThreadKey(args[c].conversation_id)
           input == create_initial_state(args[c].user_message,
                                         args[c].conversation_id,
                                         args[c].user_id)
           new == ApplyInput(Load(key), input, uuids)
       IN /\ channels' = [channels EXCEPT ![c] = <<new>>]
          /\ turn_base' = [turn_base EXCEPT ![c] = Len(new.messages)]
          /\ store' = Put(store, key, new)
          /\ final_state' = Put(final_state, args[c].conversation_id, <<>>)
          /\ uuids' = uuids + Unassigned(input.messages)
    /\ pc' = [pc EXCEPT ![c] = "supervisor"]
    /\ UNCHANGED <<args, prev_result, result, trace, decision, graph_cp, opening,
                   last_result, calls_made>>
    /\ UNCHANGED cp_vars

\* graph.ainvoke starts: the checkpoint of the thread is loaded, the input is
\* written over it and the result is saved
InvokeStart(c) ==
    /\ pc[c] = "ainvoke"
    /\ graph_cp[c] \in conn_open
    /\ LET key == ThreadKey(args[c].conversation_id)
           input == create_initial_state(args[c].user_message,
                                         args[c].conversation_id,
                                         args[c].user_id)
           new == ApplyInput(Load(key), input, uuids)
       IN /\ channels' = [channels EXCEPT ![c] = <<new>>]
          /\ turn_base' = [turn_base EXCEPT ![c] = Len(new.messages)]
          /\ store' = Put(store, key, new)
          /\ final_state' = Put(final_state, args[c].conversation_id, <<>>)
          /\ uuids' = uuids + Unassigned(input.messages)
    /\ pc' = [pc EXCEPT ![c] = "supervisor"]
    /\ UNCHANGED <<args, prev_result, result, trace, decision, graph_cp, opening,
                   last_result, calls_made>>
    /\ UNCHANGED cp_vars

\* the supervisor node returned: its writes are applied and saved, and the
\* router picks what runs next
SupervisorReturns(c, outcome) ==
    /\ graph_cp[c] \in conn_open
    /\ LET state == channels[c][1]
           returned == supervisor_node(state, outcome)
           new == ApplyWrites(state, returned, uuids)
       IN /\ channels' = [channels EXCEPT ![c] = <<new>>]
          /\ store' = Put(store, ThreadKey(args[c].conversation_id), new)
          /\ uuids' = uuids + Unassigned(returned.messages)
          /\ pc' = [pc EXCEPT ![c] = PcOf(AfterSupervisor(new))]
    /\ trace' = [trace EXCEPT ![c] = Append(@, "supervisor")]
    /\ UNCHANGED <<args, prev_result, result, turn_base, graph_cp, opening, final_state, last_result,
                   calls_made>>
    /\ UNCHANGED cp_vars

\* supervisor_node up to its await: it finishes at once after a worker,
\* otherwise it calls make_routing_decision
SupervisorStart(c) ==
    /\ pc[c] = "supervisor"
    /\ LET current_agent == channels[c][1].current_agent
       IN IF Truthy(current_agent) /\ current_agent # "supervisor"
          THEN /\ SupervisorReturns(c, <<>>)
               /\ UNCHANGED decision
          ELSE /\ pc' = [pc EXCEPT ![c] = "routing_llm"]
               /\ UNCHANGED <<args, prev_result, channels, result, trace, decision, turn_base,
                              graph_cp, opening, store, final_state, last_result, uuids,
                              calls_made>>
               /\ UNCHANGED cp_vars

\* make_routing_decision: the routing LLM call returns and is parsed
RoutingCallReturns(c, content) ==
    /\ pc[c] = "routing_llm"
    /\ LET d == ParseDecision(content)
       IN /\ decision' = [decision EXCEPT ![c] = <<d>>]
          /\ SupervisorReturns(c, <<d>>)

\* mutant: the analysis worker is started while the fallback call of the
\* supervisor is still to be made
RoutingCallRaises_handover(c) ==
    /\ pc[c] = "routing_llm"
    /\ pc' = [pc EXCEPT ![c] = "analysis_agent"]
    /\ UNCHANGED <<args, prev_result, channels, result, trace, decision, turn_base,
                   graph_cp, opening, store, final_state, last_result, uuids,
                   calls_made>>
    /\ UNCHANGED cp_vars

\* make_routing_decision: the routing LLM call raises, the fallback starts
RoutingCallRaises(c) ==
    /\ pc[c] = "routing_llm"
    /\ pc' = [pc EXCEPT ![c] = "fallback_llm"]
    /\ UNCHANGED <<args, prev_result, channels, result, trace, decision, turn_base,
                   graph_cp, opening, store, final_state, last_result, uuids,
                   calls_made>>
    /\ UNCHANGED cp_vars

\* make_routing_decision: self.execute(user_message) of the fallback returns
FallbackCallReturns(c, llm) ==
    /\ pc[c] = "fallback_llm"
    /\ LET d == FallbackDecision(<<execute(llm)>>)
       IN /\ decision' = [decision EXCEPT ![c] = <<d>>]
          /\ SupervisorReturns(c, <<d>>)

\* a worker node runs: its agent executes the last message, the output
\* message is appended and saved, and the worker's edge is followed
WorkerNode(c, llm) ==
    /\ pc[c] \in valid_agents
    /\ graph_cp[c] \in conn_open
    /\ LET state == channels[c][1]
           task == worker_task(state)
           returned == worker_node(pc[c], state, execute(llm))
           new == ApplyWrites(state, returned, uuids)
       IN /\ channels' = [channels EXCEPT ![c] = <<new>>]
          /\ store' = Put(store, ThreadKey(args[c].conversation_id), new)
          /\ uuids' = uuids + Unassigned(returned.messages)
    /\ trace' = [trace EXCEPT ![c] = Append(@, pc[c])]
    /\ pc' = [pc EXCEPT ![c] = PcOf(WorkerEdge(pc[c]))]
    /\ UNCHANGED <<args, prev_result, result, decision, turn_base, graph_cp, opening,
                   final_state, last_result, calls_made>>
    /\ UNCHANGED cp_vars

\* graph.ainvoke returned final_state: the result is validated and returned
Return(c) ==
    /\ pc[c] = "return"
    /\ result' = [result EXCEPT
                    ![c] = <<ValidatedResult(args[c].conversation_id,
                                             channels[c][1])>>]
    /\ final_state' = Put(final_state, args[c].conversation_id, channels[c])
    /\ last_result' = Put(last_result, args[c].conversation_id,
                          ValidatedResult(args[c].conversation_id,
                                          channels[c][1]))
    /\ pc' = [pc EXCEPT ![c] = "done"]
    /\ UNCHANGED <<args, prev_result, channels, trace, decision, turn_base, graph_cp,
                   opening, store, uuids, calls_made>>
    /\ UNCHANGED cp_vars

\* a read or write of the checkpointer raises inside graph.ainvoke
InvokeRaises(c, error_msg) ==
    /\ pc[c] \in GraphPcs
    /\ Fail(c, error_msg)
    /\ UNCHANGED <<args, prev_result, channels, trace, decision, turn_base, graph_cp,
                   opening, store, final_state, uuids, calls_made>>
    /\ UNCHANGED cp_vars

\* the steps of call c once it is started
Step(c) ==
    \/ GetCheckpointer(c)
    \/ AEnter(c)
    \/ Setup(c)
    \/ \E e \in SetupErrors : GetCheckpointerRaises(c, e)
    \/ InvokeStart(c)
    \/ SupervisorStart(c)
    \/ \E r \in RoutingContents : RoutingCallReturns(c, r)
    \/ RoutingCallRaises(c)
    \/ \E l \in FallbackLlm : FallbackCallReturns(c, l)
    \/ \E l \in WorkerLlm : WorkerNode(c, l)
    \/ Return(c)
    \/ \E e \in DbErrors : InvokeRaises(c, e)

Next ==
    \/ \E c \in Calls, m \in UserMessages(calls_made + 1),
          k \in ConvIds \cup {None}, u \in UserIds : Call(c, m, k, u)
    \/ \E c \in Calls : Step(c)

Spec == Init /\ [][Next]_vars

\* Every outbound call eventually returns or raises, and the event loop runs
\* every coroutine that can continue: a started call keeps taking steps.
LiveCall(c, user_message, conversation_id, user_id) ==
    CallWithin(c, user_message, conversation_id, user_id, MaxLiveCalls)

LiveNext ==
    \/ \E c \in Calls, m \in UserMessages(calls_made + 1),
          k \in ConvIds \cup {None}, u \in UserIds : LiveCall(c, m, k, u)
    \/ \E c \in Calls : Step(c)

LiveSpec ==
    Init /\ [][LiveNext]_vars /\ WF_vars(\E c \in Calls : Step(c))

(* -------------------- the handle over the process lifetime ----------- *)
\* number of execute_agent_workflow calls in one behaviour of HandleSpec
MaxHandleCalls == 2

\* everything but the checkpointer handle and the lifespan
work_vars ==
    <<pc, args, channels, graph_cp, opening, result, trace, decision,
      turn_base, store, final_state, last_result, prev_result, uuids,
      calls_made>>

\* the connection of a handle is lost and found closed (conn.closed)
DropConnection ==
    /\ \E k \in conn_open : conn_open' = conn_open \ {k}
    /\ UNCHANGED <<checkpointer_cm, checkpointer_instance, conns>>
    /\ UNCHANGED life_vars
    /\ UNCHANGED ws_vars
    /\ UNCHANGED work_vars

\* close_checkpointer up to its await: nothing is done unless both module
\* references are set
CloseCheckpointer ==
    /\ closing = 0
    /\ lifespan = "running"
    /\ \A c \in Calls : ~Active(c)
    /\ closing' = IF checkpointer_cm # 0 /\ checkpointer_instance # 0
                  THEN checkpointer_cm ELSE 0
    /\ UNCHANGED <<checkpointer_cm, checkpointer_instance, conn_open, conns,
                   lifespan>>
    /\ UNCHANGED work_vars
    /\ UNCHANGED ws_vars

\* await _checkpointer_cm.__aexit__(None, None, None) returns: the generator
\* of the context manager has run to its end, which closes its connection
\* (it had ended already when __aenter__ raised); both module references are
\* cleared
CloseExits ==
    /\ closing # 0
    /\ conn_open' = conn_open \ {closing}
    /\ checkpointer_cm' = 0
    /\ checkpointer_instance' = 0
    /\ closing' = 0
    /\ UNCHANGED <<conns, lifespan>>
    /\ UNCHANGED work_vars
    /\ UNCHANGED ws_vars

\* main.py lifespan, after the yield: close_database, close_cache and
\* close_vector_store run; none of them touches the checkpointer
Shutdown ==
    /\ lifespan = "running"
    /\ closing = 0
    /\ \A c \in Calls : ~Active(c)
    /\ lifespan' = "stopped"
    /\ UNCHANGED <<checkpointer_cm, checkpointer_instance, conn_open, conns,
                   closing>>
    /\ UNCHANGED work_vars
    /\ UNCHANGED ws_vars

HandleCall(c, user_message, conversation_id, user_id) ==
    CallWithin(c, user_message, conversation_id, user_id, MaxHandleCalls)

\* the routing responses HandleSpec draws: a direct answer and a delegation
HandleRoutingContents ==
    {r \in RoutingContents :
        \/ r.flag /\ r.phrase /\ r.yes /\ r.line = "4" /\ r.kws = {}
        \/ ~r.flag /\ ~r.phrase /\ ~r.yes /\ r.line = None /\ r.kws = {"query"}}

\* the steps of call c in HandleSpec: the handle is what varies, the LLM
\* calls return
HandleStep(c) ==
    \/ GetCheckpointer(c)
    \/ AEnter(c)
    \/ Setup(c)
    \/ GetCheckpointerRaises(c, "connection closed")
    \/ InvokeStart(c)
    \/ SupervisorStart(c)
    \/ \E r \in HandleRoutingContents : RoutingCallReturns(c, r)
    \/ WorkerNode(c, LlmReturns("out"))
    \/ Return(c)
    \/ InvokeRaises(c, "connection closed")

HandleNext ==
    \/ \E c \in Calls, m \in UserMessages(calls_made + 1), k \in ConvIds,
          u \in UserIds : HandleCall(c, m, k, u)
    \/ \E c \in Calls : HandleStep(c)
    \/ DropConnection
    \/ CloseCheckpointer
    \/ CloseExits
    \/ Shutdown

HandleSpec == Init /\ [][HandleNext]_vars

(* -------------------------- concurrent calls -------------------------- *)
\* a request handler calls execute_agent_workflow while the call of another
\* may be in progress; every handler makes one call
\* (the handlers are interchangeable: the first caller starts first)
ConcCall(c, user_message, conversation_id, user_id) ==
    /\ pc[c] = "idle"
    /\ c = FirstCall \/ pc[FirstCall] # "idle"
    /\ Enter(c, user_message, conversation_id, user_id)

\* the routing responses ConcSpec draws: a direct answer, a delegation to a
\* registered worker and a delegation to an unregistered one
ConcRoutingContents ==
    HandleRoutingContents \cup
    {r \in RoutingContents :
        ~r.flag /\ ~r.phrase /\ ~r.yes /\ r.line = None /\ r.kws = {"report"}}

\* the steps of call c in ConcSpec
ConcStep(c) ==
    \/ GetCheckpointer(c)
    \/ AEnter(c)
    \/ Setup(c)
    \/ GetCheckpointerRaises(c, "connection closed")
    \/ InvokeStart(c)
    \/ SupervisorStart(c)
    \/ \E r \in ConcRoutingContents : RoutingCallReturns(c, r)
    \/ \E l \in {LlmReturns("out"), LlmRaises("llm down")} : WorkerNode(c, l)
    \/ Return(c)
    \/ InvokeRaises(c, "boom")

ConcNext ==
    \/ \E c \in Calls, m \in UserMessages(calls_made + 1),
          k \in ConvIds \cup {None}, u \in UserIds : ConcCall(c, m, k, u)
    \/ \E c \in Calls : ConcStep(c)

ConcSpec == Init /\ [][ConcNext]_vars

(* ------------------- the nodes on any workflow state ------------------ *)
\* transcripts a node is given: the messages carry the ids add_messages drew
NodeTranscripts ==
    {<<[HumanMessage("u1") EXCEPT !.id = Uuid(1)]>>,
     <<[HumanMessage("u1") EXCEPT !.id = Uuid(1)],
       [AIMessage("out", "query_agent") EXCEPT !.id = Uuid(2)]>>}
\* the workflow states a node is given
NodeStates ==
    [messages : NodeTranscripts,
     next_agent : {"supervisor", "query_agent", END},
     current_agent : {None, "supervisor", "query_agent", "analysis_agent"},
     conversation_id : ConvIds,
     user_id : UserIds,
     metadata : {InitialMetadata},
     execution_count : 0..SafetyBound,
     max_iterations : {DefaultMaxIterations}]

\* the graph of the first caller is about to run one of its nodes on a state
\* of NodeStates, which is the checkpoint of its thread
NodeInit ==
    \E state \in NodeStates, node \in {"supervisor"} \cup valid_agents :
        /\ pc = [c \in Calls |-> IF c = FirstCall THEN node ELSE "idle"]
        /\ args = [c \in Calls |->
                     IF c = FirstCall
                     THEN [user_message |-> "u1",
                           conversation_id |-> state.conversation_id,
                           user_id |-> state.user_id]
                     ELSE NoArgs]
        /\ channels = [c \in Calls |-> IF c = FirstCall THEN <<state>> ELSE <<>>]
        /\ graph_cp = [c \in Calls |-> IF c = FirstCall THEN 1 ELSE 0]
        /\ opening = [c \in Calls |-> 0]
        /\ result = [c \in Calls |-> <<>>]
        /\ trace = [c \in Calls |-> <<>>]
        /\ decision = [c \in Calls |-> <<>>]
        /\ turn_base = [c \in Calls |->
                          IF c = FirstCall THEN Len(state.messages) ELSE 0]
        /\ store = Put(<<>>, ThreadKey(state.conversation_id), state)
        /\ final_state = <<>>
        /\ last_result = <<>>
        /\ prev_result = [c \in Calls |-> <<>>]
        /\ uuids = 2
        /\ calls_made = 1
        /\ checkpointer_cm = 1
        /\ checkpointer_instance = 1
        /\ conn_open = {1}
        /\ conns = 1
        /\ closing = 0
        /\ lifespan = "running"
        /\ active_connections = <<>>
        /\ ws_pc = [s \in Sockets |-> "none"]
        /\ ws_client = [s \in Sockets |-> None]
        /\ ws_inbox = [s \in Sockets |-> <<>>]
        /\ ws_sent = [s \in Sockets |-> <<>>]
        /\ ws_frames = 0

\* the steps of the graph from a node on
NodeStep(c) ==
    \/ SupervisorStart(c)
    \/ \E r \in RoutingContents : RoutingCallReturns(c, r)
    \/ RoutingCallRaises(c)
    \/ \E l \in FallbackLlm : FallbackCallReturns(c, l)
    \/ \E l \in WorkerLlm : WorkerNode(c, l)
    \/ Return(c)

NodeNext == \E c \in Calls : NodeStep(c)

NodeSpec == NodeInit /\ [][NodeNext]_vars

(* ----------------- websocket updates (agent_updates.py) --------------- *)
\* the text frames the clients send
PingText == "{\"type\": \"ping\", \"timestamp\": \"t1\"}"
SubscribeText == "{\"type\": \"subscribe\", \"conversation_id\": \"c1\"}"
StatusText == "{\"type\": \"status\"}"
ArrayText == "[1]"
GarbageText == "ping"
WsTexts == {PingText, SubscribeText, StatusText, ArrayText, GarbageText}

\* json.loads: <<value>>, or <<>> when it raises JSONDecodeError; a value is
\* an object with its fields or something else
JsonLoads(text) ==
    CASE text = PingText ->
            <<[object |-> TRUE, fields |-> [type |-> "ping", timestamp |-> "t1"]]>>
      [] text = SubscribeText ->
            <<[object |-> TRUE,
               fields |-> [type |-> "subscribe", conversation_id |-> "c1"]]>>
      [] text = StatusText ->
            <<[object |-> TRUE, fields |-> [type |-> "status"]]>>
      [] text = ArrayText -> <<[object |-> FALSE]>>
      [] OTHER -> <<>>

\* dict.get(key): None when the key is absent
DictGet(d, key) == IF key \in DOMAIN d THEN d[key] ELSE None
\* d[key] = value
DictSet(d, key, value) ==
    [k \in DOMAIN d \cup {key} |-> IF k = key THEN value ELSE d[k]]
\* ConnectionManager.disconnect: the entry of client_id is deleted when there
\* is one
disconnect(connections, client_id) ==
    [k \in DOMAIN connections \ {client_id} |-> connections[k]]

\* what the websocket receives next
TextFrame(text) == [disconnect |-> FALSE, text |-> text]
DisconnectFrame == [disconnect |-> TRUE]
\* the client of websocket s has closed it
ClientGone(s) ==
    \E i \in DOMAIN ws_inbox[s] : ws_inbox[s][i].disconnect
\* send_json on websocket s reaches its client
Connected(s) == ws_pc[s] \in {"accept", "receive"} /\ ~ClientGone(s)

\* the messages the handler sends
ConnectedMessage(client_id) ==
    [type |-> "connected", message |-> "Connected to agent update stream",
     client_id |-> client_id]
ErrorMessage == [type |-> "error", message |-> "Invalid JSON format"]
PongMessage(message) ==
    [type |-> "pong", timestamp |-> DictGet(message, "timestamp")]
SubscribedMessage(message) ==
    [type |-> "subscribed",
     conversation_id |-> DictGet(message, "conversation_id")]

\* ConnectionManager.send_personal_message called by the handler of websocket
\* s: the message goes to the websocket registered for client_id, if any; an
\* exception of send_json is logged.  The value is what every websocket has
\* been sent afterwards.
send_personal_message(connections, s, message, client_id) ==
    IF client_id \in DOMAIN connections
    THEN LET websocket == connections[client_id]
         IN IF Connected(websocket)
            THEN [ws_sent EXCEPT ![websocket] = Append(@, message)]
            ELSE ws_sent
    ELSE ws_sent

\* the workflow, the checkpointer handle and the lifespan
flow_vars ==
    <<work_vars, checkpointer_cm, checkpointer_instance, conn_open, conns,
      life_vars>>

\* a client opens /ws/agents/{client_id}: the handler starts and awaits
\* websocket.accept() in manager.connect
WsConnect(s, client_id) ==
    /\ ws_pc[s] = "none"
    /\ \A t \in Sockets : t < s => ws_pc[t] # "none"
    /\ ws_pc' = [ws_pc EXCEPT ![s] = "accept"]
    /\ ws_client' = [ws_client EXCEPT ![s] = client_id]
    /\ UNCHANGED <<active_connections, ws_inbox, ws_sent, ws_frames>>
    /\ UNCHANGED flow_vars

\* websocket.accept() returns: the websocket is registered under its
\* client_id, the welcome message is sent, and the handler waits in
\* receive_text
AcceptReturns(s) ==
    /\ ws_pc[s] = "accept"
    /\ LET connections == DictSet(active_connections, ws_client[s], s)
       IN /\ active_connections' = connections
          /\ ws_sent' = send_personal_message(connections, s,
                                              ConnectedMessage(ws_client[s]),
                                              ws_client[s])
    /\ ws_pc' = [ws_pc EXCEPT ![s] = "receive"]
    /\ UNCHANGED <<ws_client, ws_inbox, ws_frames>>
    /\ UNCHANGED flow_vars

\* websocket.accept() raises because the client has gone: manager.connect is
\* outside the try statement, the handler ends
AcceptRaises(s) ==
    /\ ws_pc[s] = "accept"
    /\ ClientGone(s)
    /\ ws_pc' = [ws_pc EXCEPT ![s] = "ended"]
    /\ UNCHANGED <<active_connections, ws_client, ws_inbox, ws_sent, ws_frames>>
    /\ UNCHANGED flow_vars

\* the client of websocket s sends a text frame
ClientSend(s, text) ==
    /\ ws_pc[s] = "receive"
    /\ ~ClientGone(s)
    /\ ws_frames < MaxFrames
    /\ ws_frames' = ws_frames + 1
    /\ ws_inbox' = [ws_inbox EXCEPT ![s] = Append(@, TextFrame(text))]
    /\ UNCHANGED <<active_connections, ws_pc, ws_client, ws_sent>>
    /\ UNCHANGED flow_vars

\* the client of websocket s closes it, or its connection is lost
ClientDisconnect(s) ==
    /\ ws_pc[s] \in {"accept", "receive"}
    /\ ~ClientGone(s)
    /\ ws_inbox' = [ws_inbox EXCEPT ![s] = Append(@, DisconnectFrame)]
    /\ UNCHANGED <<active_connections, ws_pc, ws_client, ws_sent, ws_frames>>
    /\ UNCHANGED flow_vars

\* receive_text returns or raises, and the handler runs up to its next
\* receive_text or to its end
Receive(s) ==
    /\ ws_pc[s] = "receive"
    /\ ws_inbox[s] # <<>>
    /\ ws_inbox' = [ws_inbox EXCEPT ![s] = Tail(@)]
    /\ LET frame == Head(ws_inbox[s])
           client_id == ws_client[s]
           loaded == IF frame.disconnect THEN <<>> ELSE JsonLoads(frame.text)
           message == loaded[1].fields
           message_type == DictGet(message, "type")
           reply(m) == send_personal_message(active_connections, s, m,
                                             client_id)
       IN IF frame.disconnect \/ (loaded # <<>> /\ ~loaded[1].object)
          THEN \* WebSocketDisconnect, or message.get raises: break, finally
               /\ active_connections' = disconnect(active_connections, client_id)
               /\ ws_pc' = [ws_pc EXCEPT ![s] = "ended"]
               /\ UNCHANGED ws_sent
          ELSE /\ ws_sent' =
                    IF loaded = <<>> THEN reply(ErrorMessage)
                    ELSE IF message_type = "ping" THEN reply(PongMessage(message))
                    ELSE IF message_type = "subscribe"
                    THEN reply(SubscribedMessage(message))
                    ELSE ws_sent
               /\ UNCHANGED <<active_connections, ws_pc>>
    /\ UNCHANGED <<ws_client, ws_frames>>
    /\ UNCHANGED flow_vars

WsNext ==
    \/ \E s \in Sockets, client_id \in ClientIds : WsConnect(s, client_id)
    \/ \E s \in Sockets : AcceptReturns(s)
    \/ \E s \in Sockets : AcceptRaises(s)
    \/ \E s \in Sockets, text \in WsTexts : ClientSend(s, text)
    \/ \E s \in Sockets : ClientDisconnect(s)
    \/ \E s \in Sockets : Receive(s)

WsSpec == Init /\ [][WsNext]_vars

(* ------------------------------ claims -------------------------------- *)
\* call c returned from the try block (graph.ainvoke raised nothing)
Completed(c) ==
    /\ pc[c] = "done"
    /\ "error" \notin DOMAIN result[c][1]
\* call c returned from the except block
Excepted(c) ==
    /\ pc[c] = "done"
    /\ "error" \in DOMAIN result[c][1]
\* the transcript of the graph call c ran
Transcript(c) == channels[c][1].messages
\* the messages the nodes of the turn of call c appended
Appended(c) == SubSeq(Transcript(c), turn_base[c] + 1, Len(Transcript(c)))
\* the turn of call c started a new conversation (the input is its only message)
NewConversation(c) == turn_base[c] = 1
\* the routing decision of the turn of call c
IsDecided(c) == decision[c] # <<>>
AnswersDirectly(c) == IsDecided(c) /\ decision[c][1].can_answer_directly
DelegatesTo(c, X) ==
    /\ IsDecided(c)
    /\ ~decision[c][1].can_answer_directly
    /\ decision[c][1].delegate_to = X
AdvisoryResponses ==
    {"I couldn't generate a response.", "I encountered an issue."}
ResultKeys == {"success", "conversation_id", "messages", "metadata", "response"}

\* C1: execute_agent_workflow never raises: whenever a call has ended, on any
\* path, it has returned a dictionary that carries success, conversation_id,
\* messages, metadata and a response that is not empty or blank.
C1_AlwaysReturnsResult ==
    \A c \in Calls :
        /\ pc[c] = "done" =>
              /\ Len(result[c]) = 1
              /\ ResultKeys \subseteq DOMAIN result[c][1]
              /\ result[c][1].success \in BOOLEAN
              /\ Truthy(result[c][1].response)
              /\ ~IsBlank(result[c][1].response)
        /\ pc[c] \in {"idle", "done", "get_checkpointer", "aenter", "setup",
                      "return"} \cup GraphPcs
\* C1 witness: calls have ended on the except path, on the degenerate path and
\* on the success path after a delegation
C1_Witness ==
    /\ calls_made = 2
    /\ Excepted(1)
    /\ result[1][1].error = "boom"
    /\ "c1" \in DOMAIN last_result
    /\ Len(last_result["c1"].messages) = 2
    /\ store["c1"].current_agent = "query_agent"

\* C2: in every turn whose routing decision is "answer directly" only the
\* supervisor node runs, the supervisor's answer is the one message appended,
\* and on a new conversation the result has 2 messages and success = true.
C2_DirectAnswerOneNodeOneMessage ==
    \A c \in Calls :
        (Completed(c) /\ AnswersDirectly(c)) =>
            /\ trace[c] = <<"supervisor">>
            /\ Len(Appended(c)) = 1
            /\ Appended(c)[1].name = "supervisor"
            /\ Appended(c)[1].content = decision[c][1].direct_answer
            /\ NewConversation(c) =>
                  /\ Len(result[c][1].messages) = 2
                  /\ result[c][1].success

\* C3: whenever the decision delegates to one of the five workers X (and the
\* safety bound is not reached) worker X runs after the supervisor, the one
\* message appended is authored by X, and the turn ends.
C3_DelegationRunsNamedWorker ==
    \A c \in Calls : \A X \in WORKER_AGENTS :
        (Completed(c) /\ DelegatesTo(c, X)
           /\ channels[c][1].execution_count < SafetyBound) =>
            /\ trace[c] = <<"supervisor", X>>
            /\ Len(Appended(c)) = 1
            /\ Appended(c)[1].name = X

\* C4: a turn has depth at most 2: the supervisor node runs first and once,
\* at most one worker node runs after it, and after a worker node nothing
\* runs but the end of the graph; a completed turn ran the supervisor.
C4_DepthAtMostTwo ==
    \A c \in Calls :
        /\ Len(trace[c]) <= 2
        /\ Len(trace[c]) >= 1 => trace[c][1] = "supervisor"
        /\ Len(trace[c]) = 2 =>
              /\ trace[c][2] \in valid_agents
              /\ pc[c] \in {"return", "done"}
        /\ (pc[c] = "return" \/ Completed(c)) => Len(trace[c]) >= 1
\* C4 witness: a completed turn that ran the supervisor and then one worker
C4_Witness ==
    \E c \in Calls :
        /\ Completed(c)
        /\ trace[c] = <<"supervisor", "analysis_agent">>

C6_EveryCallReturns ==
    (\E c \in Calls : Active(c))
        ~> (\A c \in Calls :
                (~Active(c)) /\ (pc[c] = "done" => result[c] # <<>>))
\* C6 witness: a call waits for the fallback of the routing decision
C6_Witness ==
    \E c \in Calls :
        /\ pc[c] = "fallback_llm"
        /\ "c1" \in DOMAIN store
        /\ store["c1"].messages[1].content = "u1"

\* C7: in every turn that completes without an exception, on a new or on a
\* resumed conversation: if no node appended a message or the final message
\* is blank the result has success = false and the fixed advisory response,
\* and success = true only comes with a non-blank response that an agent
\* produced in this turn.
C7_DegenerateResultDetected ==
    \A c \in Calls :
        Completed(c) =>
            LET r == result[c][1]
                last == Transcript(c)[Len(Transcript(c))].content
            IN /\ (Appended(c) = <<>> \/ IsBlank(last)) =>
                     /\ ~r.success
                     /\ r.response \in AdvisoryResponses
               /\ r.success =>
                     /\ Appended(c) # <<>>
                     /\ r.response = last
                     /\ ~IsBlank(r.response)

IsPrefix(s, t) == Len(s) <= Len(t) /\ s = SubSeq(t, 1, Len(s))
NoDuplicateIds(msgs) ==
    \A i, j \in DOMAIN msgs : msgs[i].id = msgs[j].id => i = j
\* the messages saved for a thread (none when it has no checkpoint)
Saved(checkpoints, k) ==
    IF k \in DOMAIN checkpoints THEN checkpoints[k].messages ELSE <<>>

\* C9: messages are append-only: every step leaves the saved transcript of
\* every thread, and the transcript of every running graph, a prefix of what
\* it becomes (a turn starts from the saved transcript), and no transcript
\* holds a message twice.
C9_MessagesAppendOnly ==
    [][/\ \A k \in DOMAIN store' :
             /\ IsPrefix(Saved(store, k), Saved(store', k))
             /\ NoDuplicateIds(Saved(store', k))
       /\ \A c \in Calls :
             /\ (pc[c] \in GraphPcs /\ channels[c] # <<>> /\ channels'[c] # <<>>) =>
                   IsPrefix(channels[c][1].messages, channels'[c][1].messages)
             /\ (pc[c] = "ainvoke" /\ pc'[c] = "supervisor") =>
                   IsPrefix(Saved(store, ThreadKey(args[c].conversation_id)),
                            channels'[c][1].messages)]_vars
\* C9 witness: a second turn has appended to the transcript of the first
C9_Witness ==
    /\ "c1" \in DOMAIN store
    /\ Len(store["c1"].messages) = 4
    /\ store["c1"].messages[2].name = "supervisor"
    /\ store["c1"].messages[4].name = "data_ingestion_agent"

\* C10: once a turn of conversation X has completed, and until the next turn
\* of X runs, what the checkpointer loads for X is the final state of that
\* turn, whatever turns run under other conversation ids.
C10_CheckpointRoundTrip ==
    \A X \in DOMAIN final_state :
        final_state[X] # <<>> => Load(ThreadKey(X)) = final_state[X]
\* C10 witness: the turn of another conversation completed after the turn
\* of c1, whose final state is still what is saved
C10_Witness ==
    /\ "c1" \in DOMAIN final_state
    /\ final_state["c1"] # <<>>
    /\ \E c \in Calls :
          /\ Completed(c)
          /\ args[c].conversation_id # "c1"
          /\ Len(trace[c]) = 2

\* C11: a worker node whose agent's LLM call fails raises nothing: it appends
\* one message, named after the worker, whose content is "Error: " followed
\* by the failure; the graph then ends, and the call returns success = true
\* with that text as the response.
C11_WorkerFailureAbsorbed ==
    [][\A c \in Calls :
         /\ \A e \in LlmErrors :
               WorkerNode(c, LlmRaises(e)) =>
                  LET before == channels[c][1].messages
                      after == channels'[c][1].messages
                      r == ValidatedResult(args[c].conversation_id,
                                           channels'[c][1])
                  IN /\ Len(after) = Len(before) + 1
                     /\ IsPrefix(before, after)
                     /\ after[Len(after)].name = pc[c]
                     /\ after[Len(after)].content = "Error: " \o e
                     /\ pc'[c] = "return"
                     /\ r.success
                     /\ r.response = "Error: " \o e
         /\ (pc[c] = "return" /\ pc'[c] # "return") =>
               /\ pc'[c] = "done"
               /\ result'[c] = <<ValidatedResult(args[c].conversation_id,
                                                 channels[c][1])>>]_vars
\* C11 witness: a call returned the error text of a failed query worker
C11_Witness ==
    \E c \in Calls :
        /\ Completed(c)
        /\ trace[c] = <<"supervisor", "query_agent">>
        /\ result[c][1].success
        /\ result[c][1].response = "Error: llm down"
        /\ Transcript(c)[Len(Transcript(c))].name = "query_agent"

\* C12: when the routing LLM call raises, one fallback call is made; when it
\* succeeds the decision answers directly with the fallback's text, and when
\* it fails too the decision has can_answer_directly = false and delegates to
\* analysis_agent, which is the node the graph runs next.
C12_TwoLevelFallback ==
    [][\A c \in Calls :
         /\ RoutingCallRaises(c) => pc'[c] = "fallback_llm"
         /\ \A l \in FallbackLlm :
               FallbackCallReturns(c, l) =>
                  LET d == decision'[c][1]
                  IN /\ pc'[c] # "fallback_llm"
                     /\ IF l.raised
                        THEN /\ ~d.can_answer_directly
                             /\ d.delegate_to = "analysis_agent"
                             /\ pc'[c] = "analysis_agent"
                        ELSE /\ d.can_answer_directly
                             /\ d.direct_answer = l.content]_vars

\* C13: whenever get_checkpointer or graph.ainvoke raises, the call returns
\* success = false, error = the text of the exception, no messages, and the
\* response of the first category the text matches, in the order
\* rate limit, timeout, connection, generic.
C13_ErrorClassifiedInOrder ==
    [][\A c \in Calls : \A e \in DbErrors \cup SetupErrors :
         (InvokeRaises(c, e) \/ GetCheckpointerRaises(c, e)) =>
            LET r == result'[c][1]
                N == Needles(e)
            IN /\ pc'[c] = "done"
               /\ ~r.success
               /\ r.error = e
               /\ r.messages = <<>>
               /\ r.conversation_id = args[c].conversation_id
               /\ r.response =
                     IF N \cap {"429", "rate_limit", "too many requests"} # {}
                     THEN "API Rate Limit Reached"
                     ELSE IF "timeout" \in N THEN "Request Timed Out"
                     ELSE IF "connection" \in N THEN "Connection Error"
                     ELSE "Error Occurred: " \o e]_vars
\* C13 witness: an exception whose text matches the three categories was
\* reported as a rate limit
C13_Witness ==
    \E c \in Calls :
        /\ Excepted(c)
        /\ result[c][1].error = "429 connection timeout"
        /\ result[c][1].response = "API Rate Limit Reached"

\* values of next_agent the router is asked about: the registered workers,
\* and None, END, "FINISH", unregistered and malformed names
RouterInputs ==
    WORKER_AGENTS \cup {None, END, "FINISH", "", "supervisor", "Analysis_Agent",
                        "unknown_agent"}
\* C14: for every next_agent that is not a registered worker (absent, END,
\* "FINISH", unregistered or malformed) the router returns END, and for every
\* execution_count below 3 and next_agent naming a registered worker it
\* returns that worker; in a turn, the node that runs after the supervisor is
\* the one the router returned, and none when it returned END.
C14_RouterFailsOpen ==
    [][/\ \A ec \in 0..(SafetyBound + 1) :
             /\ router([execution_count |-> ec]) = END
             /\ \A na \in RouterInputs :
                   LET to == router([next_agent |-> na, execution_count |-> ec])
                   IN /\ na \notin valid_agents => to = END
                      /\ (na \in valid_agents /\ ec < SafetyBound) => to = na
       /\ router([next_agent |-> "query_agent"]) = "query_agent"
       /\ \A c \in Calls :
             (pc[c] \in {"supervisor", "routing_llm", "fallback_llm"}
                /\ trace'[c] # trace[c]) =>
                LET st == channels'[c][1]
                IN IF st.next_agent \in valid_agents
                      /\ st.execution_count < SafetyBound
                   THEN pc'[c] = st.next_agent
                   ELSE pc'[c] = "return"]_vars
\* C14 witness: a turn ended after the supervisor named notification_agent,
\* which is no node of the graph
C14_Witness ==
    \E c \in Calls :
        /\ Completed(c)
        /\ DelegatesTo(c, "notification_agent")
        /\ channels[c][1].next_agent = "notification_agent"
        /\ trace[c] = <<"supervisor">>

\* C15: for every user_message, conversation_id and user_id (None included)
\* create_initial_state returns a state whose messages is one human message
\* with content user_message, next_agent "supervisor", current_agent None,
\* execution_count 0, max_iterations 10, and the conversation_id and user_id
\* it was given; this is the state every turn hands to the graph.
C15_InitialState ==
    [][/\ \A m \in UserMessages(1) \cup UserMessages(2) \cup {""},
            k \in ConvIds \cup {None, Uuid(1)}, u \in UserIds \cup {None} :
             LET s == create_initial_state(m, k, u)
             IN /\ Len(s.messages) = 1
                /\ s.messages[1].type = "human"
                /\ s.messages[1].content = m
                /\ s.next_agent = "supervisor"
                /\ s.current_agent = None
                /\ s.execution_count = 0
                /\ s.max_iterations = 10
                /\ s.conversation_id = k
                /\ s.user_id = u
       /\ \A c \in Calls :
             (pc[c] = "ainvoke" /\ pc'[c] = "supervisor") =>
                LET st == channels'[c][1]
                    last == st.messages[Len(st.messages)]
                IN /\ last.type = "human"
                   /\ last.content = args[c].user_message
                   /\ st.next_agent = "supervisor"
                   /\ st.current_agent = None
                   /\ st.execution_count = 0
                   /\ st.max_iterations = 10
                   /\ st.conversation_id = args[c].conversation_id
                   /\ st.user_id = args[c].user_id]_vars
\* C15 witness: the graph of a new conversation starts from the initial state
C15_Witness ==
    \E c \in Calls :
        /\ pc[c] = "supervisor"
        /\ turn_base[c] = 1
        /\ channels[c][1].messages[1].content = "u1"
        /\ channels[c][1].user_id = "alice"
        /\ channels[c][1].execution_count = 0

\* C16: a call given a conversation_id uses it, and a call given none (None
\* or "") generates one identifier no conversation has used; the identifier
\* stays the same for the whole call and is the conversation_id of the state,
\* the thread key of every checkpoint the call saves, and the conversation_id
\* of the result, on the success, degenerate and exception paths.
C16_ConversationIdStable ==
    [][\A c \in Calls :
         LET cid == args'[c].conversation_id
         IN /\ \A m \in UserMessages(calls_made + 1),
                  k \in ConvIds \cup {None, ""}, u \in UserIds :
                  Call(c, m, k, u) =>
                     IF Truthy(k) THEN cid = k
                     ELSE /\ cid \notin ConvIds \cup {None, ""}
                          /\ cid \notin DOMAIN store \cup DOMAIN last_result
                          /\ \A d \in Calls : args[d].conversation_id # cid
                          /\ uuids' = uuids + 1
            /\ Active(c) => args'[c] = args[c]
            /\ channels'[c] # <<>> =>
                  /\ channels'[c][1].conversation_id = cid
                  /\ (pc[c] \in GraphPcs /\ channels'[c] # channels[c]) =>
                        /\ store' = Put(store, cid, channels'[c][1])
                        /\ store'[cid].conversation_id = cid
            /\ pc'[c] = "done" => result'[c][1].conversation_id = cid]_vars
\* C16 witness: a call given no conversation_id completed under a generated
\* identifier, after a call on c1
C16_Witness ==
    \E c \in Calls :
        /\ Completed(c)
        /\ "c1" \in DOMAIN store
        /\ args[c].conversation_id \notin ConvIds
        /\ args[c].conversation_id \in DOMAIN store
        /\ result[c][1].conversation_id = args[c].conversation_id
        /\ Len(trace[c]) = 2

\* C17: get_checkpointer returns the existing handle, constructing nothing,
\* whenever the module holds a handle whose connection is open, and
\* constructs a handle exactly when it holds none or the connection of the
\* one it holds is closed; a handle is handed to the graph only open, and a
\* constructed one only after setup.  close_checkpointer does nothing unless
\* both module references are set; when it ends both are cleared and the
\* connection is closed, so that the next get_checkpointer constructs.
C17_HandleReuse ==
    [][/\ \A c \in Calls :
             /\ pc[c] = "get_checkpointer" /\ pc'[c] # pc[c] =>
                   IF checkpointer_instance # 0
                      /\ checkpointer_instance \in conn_open
                   THEN /\ pc'[c] = "ainvoke"
                        /\ graph_cp'[c] = checkpointer_instance
                        /\ conns' = conns
                        /\ checkpointer_instance' = checkpointer_instance
                   ELSE /\ pc'[c] = "aenter"
                        /\ conns' = conns + 1
                        /\ checkpointer_cm' = conns'
             /\ pc'[c] = "ainvoke" /\ pc[c] # "ainvoke" =>
                   /\ graph_cp'[c] = checkpointer_instance'
                   /\ graph_cp'[c] \in conn_open'
                   /\ pc[c] \in {"get_checkpointer", "setup"}
       /\ conns' # conns =>
             \E c \in Calls : pc[c] = "get_checkpointer" /\ pc'[c] = "aenter"
       /\ (closing = 0 /\ closing' # 0) =>
             checkpointer_cm # 0 /\ checkpointer_instance # 0
       /\ (closing # 0 /\ closing' = 0) =>
             /\ checkpointer_cm' = 0
             /\ checkpointer_instance' = 0
             /\ checkpointer_instance \notin conn_open'
       /\ (checkpointer_cm = 0 \/ checkpointer_instance = 0) =>
             closing' = 0]_vars
\* C17 witness: the second call is handed a handle constructed for it, the
\* connection of the first handle being closed
C17_Witness ==
    \E c \in Calls :
        /\ pc[c] = "ainvoke"
        /\ conns = 2
        /\ graph_cp[c] = 2
        /\ calls_made = 2
        /\ conn_open = {2}
        /\ checkpointer_cm = 2

\* C18: once the shutdown sequence of the application has ended, no
\* connection of a checkpoint handle is open.
C18_ShutdownReleasesHandle ==
    lifespan = "stopped" => conn_open = {}

\* a routing response that answers directly
AnswerContent ==
    [flag |-> TRUE, phrase |-> TRUE, yes |-> TRUE, line |-> "4", kws |-> {}]
\* another call of the conversation of call c is inside the graph
Overlap(c) ==
    \E d \in Calls \ {c} :
        /\ pc[d] \in GraphPcs
        /\ args[d].conversation_id = args[c].conversation_id
\* C19: when calls with the same conversation_id overlap, under every
\* interleaving: a call inside the graph can always take its next step, every
\* call that ends returns a well-formed result, and each save a call makes
\* replaces the checkpoint of the thread with its own state, whatever the
\* other call saved in between; nothing else changes the checkpoint, so that
\* when all calls have ended it is the state of the call that saved last.
C19_LastWriteWins ==
    /\ [](\A c \in Calls :
            (Overlap(c) /\ graph_cp[c] \in conn_open) =>
               /\ pc[c] = "ainvoke" => ENABLED InvokeStart(c)
               /\ pc[c] = "supervisor" => ENABLED SupervisorStart(c)
               /\ pc[c] = "routing_llm" =>
                     ENABLED RoutingCallReturns(c, AnswerContent)
               /\ pc[c] \in valid_agents =>
                     ENABLED WorkerNode(c, LlmReturns("out")))
    /\ [][/\ \A c \in Calls :
                LET cid == args[c].conversation_id
                IN /\ (pc[c] # "done" /\ pc'[c] = "done") =>
                         /\ ResultKeys \subseteq DOMAIN result'[c][1]
                         /\ result'[c][1].success \in BOOLEAN
                         /\ Truthy(result'[c][1].response)
                         /\ result'[c][1].conversation_id = cid
                   /\ (pc[c] \in GraphPcs /\ channels'[c] # channels[c]) =>
                         /\ DOMAIN store' = DOMAIN store \cup {cid}
                         /\ store'[cid] = channels'[c][1]
                         /\ \A k \in DOMAIN store \ {cid} :
                               store'[k] = store[k]
          /\ store' # store =>
                \E c \in Calls :
                   pc[c] \in GraphPcs /\ channels'[c] # channels[c]
          /\ (\A c \in Calls : pc'[c] = "done") =>
                \A k \in DOMAIN store' :
                   \E c \in Calls : channels'[c] = <<store'[k]>>]_vars
\* C19 witness: two overlapping calls on c1 have both completed; the
\* checkpoint is the state of the second, which holds nothing of the first
C19_Witness ==
    /\ Completed(1) /\ Completed(2)
    /\ args[1].conversation_id = "c1" /\ args[2].conversation_id = "c1"
    /\ Len(Transcript(1)) = 2 /\ Len(Transcript(2)) = 2
    /\ store["c1"] = channels[2][1]
    /\ store["c1"].messages[1].content = "u2"

\* what call c holds of its own: its position, arguments, graph state,
\* routing decision and result
View(c) ==
    <<pc[c], args[c], channels[c], result[c], trace[c], decision[c],
      turn_base[c]>>
\* a graph state without the identifiers add_messages drew for its messages
PlainState(state) ==
    [state EXCEPT !.messages = [i \in DOMAIN @ |-> [@[i] EXCEPT !.id = None]]]
\* calls c and d have both been made, on different conversations
Apart(c, d) ==
    /\ c # d
    /\ pc[c] # "idle"
    /\ pc[d] # "idle"
    /\ args[c].conversation_id # args[d].conversation_id
\* C20: two calls on different conversations do not affect each other, under
\* every interleaving: a step of one leaves what the other holds (transcript,
\* execution_count, routing fields, result) and the checkpoint of the other's
\* thread as they are; the graph of each starts from the state it starts
\* from when the call runs alone (its own input over no checkpoint); and
\* each returns the result of its own final state, which is the checkpoint
\* of its thread.
C20_CrossConversationIsolation ==
    [][\A c, d \in Calls :
          LET cid == args[c].conversation_id
              input == create_initial_state(args[c].user_message, cid,
                                            args[c].user_id)
          IN /\ (Apart(c, d)' /\ View(d)' # View(d)) =>
                   /\ View(c)' = View(c)
                   /\ Load(cid)' = Load(cid)
             /\ (Apart(c, d) /\ pc[c] = "ainvoke" /\ pc'[c] = "supervisor") =>
                   PlainState(channels'[c][1]) =
                      PlainState(ApplyInput(<<>>, input, 0))
             /\ (Apart(c, d) /\ pc[c] = "return" /\ pc'[c] = "done") =>
                   /\ result'[c][1] = ValidatedResult(cid, channels[c][1])
                   /\ Load(cid) = channels[c]
                   /\ Transcript(c)[1].content = args[c].user_message
                   /\ NewConversation(c)]_vars
\* C20 witness: two calls on different conversations are inside the graph
\* at the same time, each past its first save, and the second to start has
\* reached its worker while the first still waits for its routing response
C20_Witness ==
    /\ Apart(1, 2)
    /\ pc[1] = "routing_llm"
    /\ pc[2] = "query_agent"
    /\ Load(args[1].conversation_id) = channels[1]
    /\ Load(args[2].conversation_id) = channels[2]
    /\ Transcript(1)[1].content # Transcript(2)[1].content

\* the handler of websocket s takes the text frame its client sent first
Receives(s, text) ==
    /\ ws_pc[s] = "receive"
    /\ ws_inbox[s] # <<>>
    /\ ws_inbox'[s] = Tail(ws_inbox[s])
    /\ Head(ws_inbox[s]) = TextFrame(text)
\* websocket s is sent message and no other websocket is sent anything
OnlySent(s, message) ==
    ws_sent' = [ws_sent EXCEPT ![s] = Append(@, message)]
\* C21: the first message a websocket is sent is 'connected' with its
\* client_id; while its client is connected, a ping is answered by one pong
\* with its timestamp, a subscribe by one subscribed with its
\* conversation_id and a frame that is not JSON by one error after which the
\* handler goes on receiving; the reply is sent to the sender and to nobody
\* else.
C21_UpdateProtocol ==
    [][\A s \in Sockets :
          /\ ws_sent'[s] # <<>> =>
                ws_sent'[s][1] = ConnectedMessage(ws_client'[s])
          /\ (Receives(s, PingText) /\ Connected(s)) =>
                OnlySent(s, [type |-> "pong", timestamp |-> "t1"])
          /\ (Receives(s, SubscribeText) /\ Connected(s)) =>
                OnlySent(s, [type |-> "subscribed", conversation_id |-> "c1"])
          /\ (Receives(s, GarbageText) /\ Connected(s)) =>
                /\ OnlySent(s, ErrorMessage)
                /\ ws_pc'[s] = "receive"]_vars

\* C30: active_connections holds a websocket only under its client_id and
\* only while its handler runs; when a handler ends the registry holds its
\* websocket no more, and every entry of another websocket stays as it is.
C30_RegistryConsistency ==
    [][/\ \A k \in DOMAIN active_connections' :
             /\ ws_pc'[active_connections'[k]] \in {"accept", "receive"}
             /\ ws_client'[active_connections'[k]] = k
       /\ \A s \in Sockets :
             (ws_pc[s] # "ended" /\ ws_pc'[s] = "ended") =>
                /\ \A k \in DOMAIN active_connections' :
                      active_connections'[k] # s
                /\ \A k \in DOMAIN active_connections :
                      active_connections[k] # s =>
                         /\ k \in DOMAIN active_connections'
                         /\ active_connections'[k] = active_connections[k]]_vars

\* C22: a turn leaves execution_count one above the count it started with
\* (0) when the supervisor handed over to a worker, which then ran, and leaves
\* it as it was when the supervisor answered directly or the turn ended with
\* no worker having run.
C22_CountedOncePerDelegation ==
    \A c \in Calls :
        Completed(c) =>
            channels[c][1].execution_count =
                IF Len(trace[c]) = 2 /\ trace[c][2] \in valid_agents
                THEN 1 ELSE 0

\* C23: every turn, on a new or on a resumed conversation, enters the graph
\* with current_agent empty and execution_count 0, and its supervisor node
\* goes on to the routing decision: it never finishes at once through the
\* branch for a return from a worker.
C23_TurnStartsFresh ==
    [][\A c \in Calls :
          /\ (pc[c] = "ainvoke" /\ pc'[c] = "supervisor") =>
                /\ channels'[c][1].current_agent = None
                /\ channels'[c][1].execution_count = 0
          /\ (pc[c] = "supervisor" /\ pc'[c] # "supervisor"
                 /\ result'[c] = <<>>) =>
                /\ pc'[c] = "routing_llm"
                /\ channels'[c] = channels[c]]_vars
\* C23 witness: a turn on a conversation whose previous turn ended in a
\* worker node waits for its routing decision
C23_Witness ==
    \E c \in Calls :
        /\ pc[c] = "routing_llm"
        /\ turn_base[c] = 3
        /\ Transcript(c)[2].name \in valid_agents
        /\ channels[c][1].current_agent = None
        /\ channels[c][1].execution_count = 0

\* C24: every decision make_routing_decision returns is usable: with
\* can_answer_directly it carries a non-empty direct_answer and delegate_to
\* is "FINISH"; without it direct_answer is absent and delegate_to is one of
\* the five workers.
C24_DecisionUsable ==
    \A c \in Calls :
        decision[c] # <<>> =>
            LET d == decision[c][1]
            IN IF d.can_answer_directly
               THEN Truthy(d.direct_answer) /\ d.delegate_to = "FINISH"
               ELSE d.direct_answer = None /\ d.delegate_to \in WORKER_AGENTS

\* the program points at which the supervisor node of a call is active
SupervisorPcs == {"supervisor", "routing_llm", "fallback_llm"}
\* the nodes of the graph of call c that have begun and not returned
ActiveNodes(c) ==
    IF pc[c] \in SupervisorPcs THEN {"supervisor"}
    ELSE IF pc[c] \in valid_agents THEN {pc[c]}
    ELSE {}
C26_OneHandleUnderRace ==
    /\ \A c, d \in Calls :
          (c # d /\ pc[c] = "aenter" /\ pc[d] = "aenter") =>
              opening[c] = opening[d]
    /\ \A c, d \in Calls :
          (pc[c] \in GraphPcs /\ pc[d] \in GraphPcs) => graph_cp[c] = graph_cp[d]
    /\ conn_open \subseteq {checkpointer_cm}

\* the supervisor node of call c is given a state whose current_agent names
\* another node
AfterWorker(c) ==
    /\ pc[c] = "supervisor"
    /\ Truthy(channels[c][1].current_agent)
    /\ channels[c][1].current_agent # "supervisor"
\* C27: when the supervisor node runs on a state whose current_agent names a
\* node other than the supervisor, it makes no routing call and no decision,
\* appends no message, leaves execution_count and current_agent (and every
\* field but next_agent) as they are and sets next_agent to END, so that
\* the graph ends.
C27_SupervisorFinishesAfterWorker ==
    [][\A c \in Calls :
          (AfterWorker(c) /\ pc'[c] # pc[c]) =>
              /\ pc'[c] = "return"
              /\ decision'[c] = decision[c]
              /\ trace'[c] = Append(trace[c], "supervisor")
              /\ channels'[c][1] = [channels[c][1] EXCEPT !.next_agent = END]
              /\ channels'[c][1].messages = channels[c][1].messages
              /\ channels'[c][1].execution_count = channels[c][1].execution_count
              /\ channels'[c][1].current_agent = channels[c][1].current_agent]_vars
\* C27 witness: the supervisor node has run on a state with current_agent =
\* "query_agent", next_agent = "query_agent" and execution_count 1
C27_Witness ==
    \E c \in Calls :
        /\ pc[c] = "return"
        /\ trace[c] = <<"supervisor">>
        /\ decision[c] = <<>>
        /\ channels[c][1].current_agent = "query_agent"
        /\ channels[c][1].next_agent = END
        /\ channels[c][1].execution_count = 1
        /\ Len(Transcript(c)) = 2

\* C28: a worker node takes the content of the last message as its task,
\* appends one message of its own after the messages there were, sets
\* current_agent to its name and next_agent to END, leaves every other field
\* as it is, and the graph ends.
C28_WorkerFrame ==
    [][\A c \in Calls :
          (pc[c] \in valid_agents /\ pc'[c] # pc[c] /\ result'[c] = <<>>) =>
              LET old == channels[c][1]
                  new == channels'[c][1]
                  n == Len(old.messages)
              IN /\ worker_task(old) = old.messages[n].content
                 /\ Len(new.messages) = n + 1
                 /\ SubSeq(new.messages, 1, n) = old.messages
                 /\ new.messages[n + 1].name = pc[c]
                 /\ new.messages[n + 1].type = "ai"
                 /\ new.current_agent = pc[c]
                 /\ new.next_agent = END
                 /\ \A k \in StateKeys \ {"messages", "current_agent",
                                           "next_agent"} : new[k] = old[k]
                 /\ pc'[c] = "return"]_vars
\* C28 witness: the query worker has run on a state with execution_count 2,
\* current_agent = "analysis_agent" and next_agent = "supervisor"
C28_Witness ==
    \E c \in Calls :
        /\ pc[c] = "return"
        /\ trace[c] = <<"query_agent">>
        /\ channels[c][1].execution_count = 2
        /\ channels[c][1].current_agent = "query_agent"
        /\ channels[c][1].next_agent = END
        /\ Len(Transcript(c)) = 3
        /\ Transcript(c)[3].name = "query_agent"

\* the workers in the order of the claim, each with the keywords that name it
TargetOrder ==
    <<[agent |-> "data_ingestion_agent", words |-> {"data_ingestion", "file"}],
      [agent |-> "query_agent", words |-> {"query", "database"}],
      [agent |-> "analysis_agent", words |-> {"analysis"}],
      [agent |-> "report_agent", words |-> {"report"}],
      [agent |-> "notification_agent", words |-> {"notif"}]>>
\* the first worker of TargetOrder one of whose keywords is among kws,
\* analysis_agent when there is none
FirstTarget(kws) ==
    LET hits == {i \in DOMAIN TargetOrder : TargetOrder[i].words \cap kws # {}}
    IN IF hits = {} THEN "analysis_agent"
       ELSE TargetOrder[CHOOSE i \in hits : \A j \in hits : i <= j].agent
\* C29: a routing response that does not pass the direct-answer test yields
\* the decision that delegates to the first worker, in the order ingestion,
\* query, analysis, report, notification, one of whose keywords occurs in the
\* response, and to analysis_agent when none occurs: always one of the five
\* workers.
C29_KeywordPriority ==
    [][\A c \in Calls :
          pc[c] = "routing_llm" =>
              \A r \in RoutingContents :
                  (RoutingCallReturns(c, r) /\ ~(r.flag \/ (r.phrase /\ r.yes))) =>
                      LET d == decision'[c][1]
                      IN /\ ~d.can_answer_directly
                         /\ d.delegate_to = FirstTarget(r.kws)
                         /\ d.delegate_to \in WORKER_AGENTS]_vars
\* C29 witness: a response that does not pass the direct-answer test was
\* parsed and the supervisor handed over to the ingestion worker
C29_Witness ==
    \E c \in Calls :
        /\ pc[c] = "data_ingestion_agent"
        /\ decision[c] # <<>>
        /\ decision[c][1].delegate_to = "data_ingestion_agent"
        /\ ~decision[c][1].can_answer_directly


====
